---- MODULE Spec2Model ----
(***************************************************************************)
(* PAV ensemble backend (annif/backend/pav.py).                            *)
(*                                                                         *)
(* One backend instance serves inference requests (_analyze) with a lazily *)
(* filled cache of per-source calibration models, while a training run     *)
(* (load_corpus) fits and persists one model per configured source.        *)
(* Scores are fixed-point integers: MaxScore stands for probability 1.0.   *)
(***************************************************************************)
EXTENDS Integers, Sequences, FiniteSets

\* ------------------------------------------------------------------ bounds
\* Largest number of documents in a training corpus.
MaxDocs == 2
\* Largest value of the min-docs parameter.
MaxMinDocs == 2
\* Fixed-point resolution of scores: MaxScore is the probability 1.0.
MaxScore == 4

\* --------------------------------------------------------- the environment
\* pav.py:22
MODEL_FILE_PREFIX == "pav-model-"

\* The project that owns the ensemble backend, and its source projects.
ProjectId == "ens"
SourceIds == {"s1", "s2"}

Texts == {"t1", "t2", "t3"}

Scores == 0 .. MaxScore

\* project.subjects: the ordered vocabulary of a project, <<uri, label>> pairs.
Subjects(project_id) ==
    CASE project_id = "s1"  -> << <<"c1", "L1">>, <<"c2", "L2">> >>
      [] project_id = "s2"  -> << <<"c2", "L2">>, <<"c3", "L3">>, <<"c4", "L4">> >>
      [] project_id = "ens" -> << <<"c1", "L1">>, <<"c2", "L2">>, <<"c3", "L3">>,
                                  <<"c5", "L5">> >>

Uris(subjects) == {subjects[i][1] : i \in 1 .. Len(subjects)}

Hit(uri, label, score) == [uri |-> uri, label |-> label, score |-> score]

\* source_project.analyze(text): the ranked raw hits of an opaque source
\* backend, a fixed function of the text.
analyze(project_id, text) ==
    CASE project_id = "s1" /\ text = "t1" -> << Hit("c1", "L1", 3), Hit("c2", "L2", 1) >>
      [] project_id = "s1" /\ text = "t2" -> << Hit("c2", "L2", 4), Hit("c1", "L1", 2) >>
      [] project_id = "s1" /\ text = "t3" -> << Hit("c1", "L1", 1) >>
      [] project_id = "s2" /\ text = "t1" -> << Hit("c4", "L4", 4), Hit("c2", "L2", 2) >>
      [] project_id = "s2" /\ text = "t2" -> << Hit("c3", "L3", 3), Hit("c2", "L2", 3),
                                                Hit("c4", "L4", 1) >>
      [] project_id = "s2" /\ text = "t3" -> << >>

\* The labelled documents a corpus is made of: text and ground-truth uris.
Documents ==
    << [text |-> "t1", uris |-> {"c1", "c4"}],
       [text |-> "t2", uris |-> {"c2", "c3"}],
       [text |-> "t3", uris |-> {"c1", "c2"}] >>

\* The corpora of at most MaxDocs documents, one per multiset of documents
\* (training does not depend on the order of the documents).
Corpora ==
    { [d \in 1 .. Len(f) |-> Documents[f[d]]] :
        f \in { g \in UNION { [1 .. n -> 1 .. Len(Documents)] : n \in 0 .. MaxDocs } :
                  \A d \in 1 .. Len(g) - 1 : g[d] <= g[d + 1] } }

\* params['sources'] after parse_sources: ordered <<source id, weight>> pairs.
SourceConfigs ==
    { << <<"s1", 7>>, <<"s2", 3>> >>,
      << <<"s2", 1>>, <<"s1", 1>> >> }

\* ------------------------------------------------------------ pure helpers
RECURSIVE SumSeq(_)
SumSeq(s) == IF s = << >> THEN 0 ELSE Head(s) + SumSeq(Tail(s))

SetMax(S) == CHOOSE x \in S : \A y \in S : y <= x
SetMin(S) == CHOOSE x \in S : \A y \in S : x <= y

\* list.sort(key=score, reverse=True): stable, descending by score.
RECURSIVE InsertDesc(_, _)
InsertDesc(sorted, hit) ==
    IF sorted = << >> THEN << hit >>
    ELSE IF Head(sorted).score >= hit.score
         THEN << Head(sorted) >> \o InsertDesc(Tail(sorted), hit)
         ELSE << hit >> \o sorted

RECURSIVE SortDesc(_)
SortDesc(hits) ==
    IF hits = << >> THEN << >>
    ELSE InsertDesc(SortDesc(SubSeq(hits, 1, Len(hits) - 1)), hits[Len(hits)])

\* The score a hit list gives a uri, 0 when it has no hit for it.
ScoreOf(hits, uri) ==
    IF \E i \in 1 .. Len(hits) : hits[i].uri = uri
    THEN hits[CHOOSE i \in 1 .. Len(hits) : hits[i].uri = uri].score
    ELSE 0

\* hits.vector: the scores of a hit list in the order of a vocabulary.
Vector(hits, subjects) ==
    [cid \in 1 .. Len(subjects) |-> ScoreOf(hits, subjects[cid][1])]

\* SubjectSet.as_vector: the 0/1 vector of a document's uris over a vocabulary.
as_vector(uris, subjects) ==
    [cid \in 1 .. Len(subjects) |-> IF subjects[cid][1] \in uris THEN 1 ELSE 0]

\* ------------------------------------------------- isotonic regression
\* IsotonicRegression(out_of_bounds='clip').fit(X, y) followed by predict:
\* the fitted table over Scores.  The fit at a training point u is the
\* max-min formula of isotonic regression over blocks of training points,
\* max over a <= u of min over b >= u of the mean of y on [a, b], in
\* fixed point (rounded down); between training points predict interpolates
\* linearly, outside the training range it clips to the nearest boundary.
IsotonicRegression(X, y) ==
    LET n == Len(X)
        UX == {X[i] : i \in 1 .. n}
        In(a, b) == {i \in 1 .. n : a <= X[i] /\ X[i] <= b}
        SumY(a, b) == SumSeq([k \in 1 .. n |-> IF k \in In(a, b) THEN y[k] ELSE 0])
        Mean(a, b) == (MaxScore * SumY(a, b)) \div Cardinality(In(a, b))
        FitAt(u) ==
            SetMax({ SetMin({ Mean(a, b) : b \in {v \in UX : v >= u} })
                     : a \in {v \in UX : v <= u} })
        Clip(s) == IF s < SetMin(UX) THEN SetMin(UX)
                   ELSE IF s > SetMax(UX) THEN SetMax(UX) ELSE s
        Predict(s) ==
            LET c == Clip(s)
            IN IF c \in UX THEN FitAt(c)
               ELSE LET lo == SetMax({v \in UX : v < c})
                        hi == SetMin({v \in UX : v > c})
                    IN FitAt(lo) + ((FitAt(hi) - FitAt(lo)) * (c - lo)) \div (hi - lo)
    IN [s \in Scores |-> Predict(s)]

\* reg.predict([score])[0]
predict(reg, score) == reg[score]

\* ------------------------------------------------------------- training
\* _analyze_train_corpus: the documents x concepts matrices of raw scores
\* and of true labels, in the order of the source's vocabulary.
_analyze_train_corpus(source_project_id, docs) ==
    [scores |-> [d \in 1 .. Len(docs) |->
                    Vector(analyze(source_project_id, docs[d].text),
                           Subjects(source_project_id))],
     true   |-> [d \in 1 .. Len(docs) |->
                    as_vector(docs[d].uris, Subjects(source_project_id))]]

Column(matrix, cid) == [d \in 1 .. Len(matrix) |-> matrix[d][cid]]

\* Mutation: the threshold test is <= instead of <.
TooFewExamples_le(true, cid, min) == SumSeq(Column(true, cid)) <= min

\* The skip test of the per-concept loop (pav.py:103).
TooFewExamples(true, cid, min) == SumSeq(Column(true, cid)) < min

\* The dictionary pav_regressions built by _create_pav_model (lines 99-107).
CreatePavRegressions(source_project_id, min, docs) ==
    LET subjects == Subjects(source_project_id)
        m == _analyze_train_corpus(source_project_id, docs)
        kept == {cid \in 1 .. Len(subjects) : ~TooFewExamples(m.true, cid, min)}
        CidOf(uri) == CHOOSE cid \in kept : subjects[cid][1] = uri
    IN [uri \in {subjects[cid][1] : cid \in kept} |->
           IsotonicRegression(Column(m.scores, CidOf(uri)), Column(m.true, CidOf(uri)))]

\* ------------------------------------------------------------- artifacts
NoFile == [kind |-> "none"]
PartialFile == [kind |-> "partial"]
ModelFile(regressions) == [kind |-> "model", model |-> regressions]

\* self._get_datadir()
datadir == "data"
os_path_join(dir, filename) == dir \o "/" \o filename
ModelFilename(source_project_id) == MODEL_FILE_PREFIX \o source_project_id
ModelPath(source_project_id) == os_path_join(datadir, ModelFilename(source_project_id))
Paths == {ModelPath(s) : s \in SourceIds}

\* An artifact left by an earlier deployment: a calibrator for the first
\* concept of the source's vocabulary only, mapping every score to 1.
OldModel(source_project_id) ==
    LET uri == Subjects(source_project_id)[1][1]
    IN [u \in {uri} |-> [s \in Scores |-> 1]]

\* ----------------------------------------------------------------- state
VARIABLES
    sources,            \* params['sources'], parsed: <<source id, weight>> pairs
    min_docs,           \* int(params['min-docs'])
    corpus,             \* the training corpus handed to load_corpus
    files,              \* the data directory: canonical path -> content
    tmpfile,            \* the temporary file of the save in progress
    _models,            \* PAVBackend._models: None, or source id -> model
    apc,                \* position of the inference request
    text,               \* the text of the request
    aidx,               \* index into sources of the request's loop
    hits_from_sources,  \* the WeightedHits collected so far
    result,             \* what the last request returned or raised
    stale_hit,          \* history: the request was served a cached model
                        \* while storage held another artifact
    tpc,                \* position of the training run
    tidx,               \* index into sources of load_corpus's loop
    pav_regressions,    \* the dictionary being saved
    train_error,        \* the error the training run ended with
    initial_files,      \* history: the data directory at construction
    files_at_start,     \* history: the data directory when load_corpus began
    committed           \* history: path -> artifacts committed by training

vars == << sources, min_docs, corpus, files, tmpfile, _models, apc, text, aidx,
           hits_from_sources, result, stale_hit, tpc, tidx, pav_regressions, train_error,
           initial_files, files_at_start, committed >>

config == << sources, min_docs, corpus, initial_files >>
inference == << _models, apc, text, aidx, hits_from_sources, result, stale_hit >>
training == << files, tmpfile, tpc, tidx, pav_regressions, train_error,
               files_at_start, committed >>

\* pav.py:25
None == [None |-> TRUE]
EmptyDict == [s \in {} |-> NoFile]

NoResult == [kind |-> "none"]

NotInitializedException(message, project_id) ==
    [kind |-> "error", error |-> "NotInitializedException",
     message |-> message, project_id |-> project_id]

UnpicklingError(path) ==
    [kind |-> "error", error |-> "UnpicklingError",
     message |-> path, project_id |-> ""]

os_path_exists(path) == files[path].kind # "none"

\* ------------------------------------------------------------- inference
\* Mutation: a missing artifact is replaced by an empty model.
_get_model_fallback(source_project_id, project_id) ==
    LET models == IF _models = None THEN EmptyDict ELSE _models
        path == ModelPath(source_project_id)
        loaded == IF os_path_exists(path) /\ files[path].kind = "model"
                  THEN files[path].model ELSE EmptyDict
    IN IF source_project_id \in DOMAIN models
       THEN [raised |-> FALSE, models |-> models, value |-> models[source_project_id]]
       ELSE [raised |-> FALSE,
             models |-> [s \in DOMAIN models \cup {source_project_id} |->
                            IF s = source_project_id THEN loaded ELSE models[s]],
             value |-> loaded]

\* Mutation: the cache is not consulted, the artifact is loaded on every call.
_get_model_reload(source_project_id, project_id) ==
    LET models == IF _models = None THEN EmptyDict ELSE _models
        path == ModelPath(source_project_id)
    IN IF os_path_exists(path) /\ files[path].kind = "model"
       THEN [raised |-> FALSE,
             models |-> [s \in DOMAIN models \cup {source_project_id} |->
                            IF s = source_project_id THEN files[path].model
                            ELSE models[s]],
             value |-> files[path].model]
       ELSE [raised |-> TRUE, models |-> models,
             error |-> NotInitializedException(
                           "PAV model file '" \o path \o "' not found",
                           project_id)]

\* _get_model: the cache after the call, and the model returned or the
\* exception raised.  joblib.load fails on a truncated file.
_get_model(source_project_id, project_id) ==
    LET models == IF _models = None THEN EmptyDict ELSE _models
        path == ModelPath(source_project_id)
    IN IF source_project_id \in DOMAIN models
       THEN [raised |-> FALSE, models |-> models, value |-> models[source_project_id]]
       ELSE IF os_path_exists(path)
            THEN IF files[path].kind = "model"
                 THEN [raised |-> FALSE,
                       models |-> [s \in DOMAIN models \cup {source_project_id} |->
                                      IF s = source_project_id THEN files[path].model
                                      ELSE models[s]],
                       value |-> files[path].model]
                 ELSE [raised |-> TRUE, models |-> models,
                       error |-> UnpicklingError(path)]
            ELSE [raised |-> TRUE, models |-> models,
                  error |-> NotInitializedException(
                                "PAV model file '" \o path \o "' not found",
                                project_id)]

\* Mutation: a concept without a calibrator scores 0.
_apply_pav_zero(hits, reg_models, source_project_id) ==
    LET pav_result ==
            [i \in 1 .. Len(hits) |->
                Hit(hits[i].uri, hits[i].label,
                    IF hits[i].uri \in DOMAIN reg_models
                    THEN predict(reg_models[hits[i].uri], hits[i].score)
                    ELSE 0)]
    IN [hits |-> SortDesc(pav_result), subjects |-> Subjects(source_project_id)]

\* _apply_pav, given the model _get_model returned.
_apply_pav(hits, reg_models, source_project_id) ==
    LET pav_result ==
            [i \in 1 .. Len(hits) |->
                Hit(hits[i].uri, hits[i].label,
                    IF hits[i].uri \in DOMAIN reg_models
                    THEN predict(reg_models[hits[i].uri], hits[i].score)
                    ELSE hits[i].score)]
    IN [hits |-> SortDesc(pav_result), subjects |-> Subjects(source_project_id)]

\* Mutation: the configured weight is dropped.
WeightedHits_unweighted(pav_hits, weight) == [hits |-> pav_hits, weight |-> 1]

\* annif.hit.WeightedHits(hits=pav_hits, weight=weight), pav.py:70-72
WeightedHits(pav_hits, weight) == [hits |-> pav_hits, weight |-> weight]

\* annif.util.merge_hits: the weighted calibrated hits projected onto the
\* target vocabulary by uri, scaled by the source's weight, summed per
\* target concept and sorted descending by score.
merge_hits(weighted_hits, subjects) ==
    SortDesc([cid \in 1 .. Len(subjects) |->
                 Hit(subjects[cid][1], subjects[cid][2],
                     SumSeq([k \in 1 .. Len(weighted_hits) |->
                                weighted_hits[k].weight *
                                ScoreOf(weighted_hits[k].hits.hits, subjects[cid][1])]))])

\* Mutation: the hits are merged over the first source's vocabulary.
_analyze_source_vocab(weighted_hits, project_id) ==
    [kind |-> "hits", hits |-> merge_hits(weighted_hits, weighted_hits[1].hits.subjects)]

RECURSIVE ConcatHits(_)
ConcatHits(weighted_hits) ==
    IF weighted_hits = << >> THEN << >>
    ELSE ConcatHits(SubSeq(weighted_hits, 1, Len(weighted_hits) - 1))
         \o weighted_hits[Len(weighted_hits)].hits.hits

\* Mutation: the per-source hit lists are returned one after the other,
\* unmerged.
_analyze_unmerged(weighted_hits, project_id) ==
    [kind |-> "hits", hits |-> ConcatHits(weighted_hits)]

\* The merge of _analyze (pav.py:78-81).
_analyze(weighted_hits, project_id) ==
    [kind |-> "hits", hits |-> merge_hits(weighted_hits, Subjects(project_id))]

\* _analyze is called with a text (pav.py:75-77, 60).
AnalyzeCall ==
    /\ apc = "idle"
    /\ \E t \in Texts : text' = t
    /\ apc' = "sources"
    /\ aidx' = 1
    /\ hits_from_sources' = << >>
    /\ result' = NoResult
    /\ stale_hit' = FALSE
    /\ UNCHANGED << _models, config, training >>

\* One iteration of the loop of _analyze_with_sources (pav.py:61-72).
AnalyzeWithSourcesStep ==
    /\ apc = "sources"
    /\ LET project_id == sources[aidx][1]
           weight == sources[aidx][2]
           hits == analyze(project_id, text)
           got == _get_model(project_id, ProjectId)
       IN /\ _models' = got.models
          /\ stale_hit' = (stale_hit \/ (/\ _models # None
                                         /\ project_id \in DOMAIN _models
                                         /\ ~got.raised
                                         /\ ModelFile(got.value) # files[ModelPath(project_id)]))
          /\ IF got.raised
             THEN /\ result' = got.error
                  /\ apc' = "idle"
                  /\ hits_from_sources' = << >>
                  /\ aidx' = aidx
             ELSE /\ hits_from_sources' =
                         Append(hits_from_sources,
                                WeightedHits(_apply_pav(hits, got.value, project_id),
                                             weight))
                  /\ aidx' = aidx + 1
                  /\ apc' = IF aidx = Len(sources) THEN "merge" ELSE "sources"
                  /\ result' = result
    /\ UNCHANGED << text, config, training >>

\* The merge and return of _analyze (pav.py:78-81).
AnalyzeReturn ==
    /\ apc = "merge"
    /\ result' = _analyze(hits_from_sources, ProjectId)
    /\ apc' = "idle"
    /\ hits_from_sources' = << >>
    /\ UNCHANGED << _models, text, aidx, stale_hit, config, training >>

\* -------------------------------------------------------------- training
\* Mutation: the loop starts at the second source.
load_corpus_skip_first ==
    /\ tpc \in {"idle", "failed"}
    /\ tpc' = "create"
    /\ tidx' = 2
    /\ train_error' = "none"
    /\ tmpfile' = NoFile
    /\ pav_regressions' = EmptyDict
    /\ files_at_start' = files
    /\ UNCHANGED << files, committed, config, inference >>

\* load_corpus is called (pav.py:117-121).
load_corpus ==
    /\ tpc \in {"idle", "failed"}
    /\ tpc' = "create"
    /\ tidx' = 1
    /\ train_error' = "none"
    /\ tmpfile' = NoFile
    /\ pav_regressions' = EmptyDict
    /\ files_at_start' = files
    /\ UNCHANGED << files, committed, config, inference >>

\* _create_pav_model up to the save (pav.py:94-109).  With no documents the
\* matrices are empty one-dimensional arrays and true[:, cid] raises.
_create_pav_model ==
    /\ tpc = "create"
    /\ IF corpus = << >> /\ Len(Subjects(sources[tidx][1])) > 0
       THEN /\ tpc' = "failed"
            /\ train_error' = "IndexError"
            /\ UNCHANGED pav_regressions
       ELSE /\ pav_regressions' = CreatePavRegressions(sources[tidx][1], min_docs, corpus)
            /\ tpc' = "save"
            /\ UNCHANGED train_error
    /\ UNCHANGED << files, tmpfile, tidx, files_at_start, committed, config, inference >>

\* annif.util.atomic_save(obj, dirname, filename, method): write the object
\* to a temporary file of the directory, then rename it to the canonical
\* name.  The write is not atomic; the rename is.
atomic_save(obj, path) ==
    \/ /\ tpc = "save"
       /\ tmpfile' = PartialFile
       /\ tpc' = "write"
       /\ UNCHANGED << files, committed >>
    \/ /\ tpc = "write"
       /\ tmpfile' = ModelFile(obj)
       /\ tpc' = "rename"
       /\ UNCHANGED << files, committed >>
    \/ /\ tpc = "rename"
       /\ files' = [files EXCEPT ![path] = tmpfile]
       /\ committed' = [committed EXCEPT ![path] = @ \cup {tmpfile}]
       /\ tmpfile' = NoFile
       /\ tpc' = "saved"

\* Mutation: joblib.dump straight onto the canonical name.
joblib_dump(obj, path) ==
    \/ /\ tpc = "save"
       /\ files' = [files EXCEPT ![path] = PartialFile]
       /\ tpc' = "write"
       /\ UNCHANGED << tmpfile, committed >>
    \/ /\ tpc = "write"
       /\ files' = [files EXCEPT ![path] = ModelFile(obj)]
       /\ tpc' = "rename"
       /\ UNCHANGED << tmpfile, committed >>
    \/ /\ tpc = "rename"
       /\ committed' = [committed EXCEPT ![path] = @ \cup {files[path]}]
       /\ tpc' = "saved"
       /\ UNCHANGED << files, tmpfile >>

\* Mutation: the model is saved with joblib.dump, not atomic_save.
SaveInPlace ==
    /\ joblib_dump(pav_regressions, ModelPath(sources[tidx][1]))
    /\ UNCHANGED << tidx, pav_regressions, train_error, files_at_start, config, inference >>

\* The save of _create_pav_model (pav.py:110-115).
SaveModel ==
    /\ atomic_save(pav_regressions, ModelPath(sources[tidx][1]))
    /\ UNCHANGED << tidx, pav_regressions, train_error, files_at_start, config, inference >>

\* The loop of load_corpus goes on to the next source, or returns (pav.py:121).
load_corpus_next ==
    /\ tpc = "saved"
    /\ tidx' = tidx + 1
    /\ tpc' = IF tidx = Len(sources) THEN "idle" ELSE "create"
    /\ UNCHANGED << files, tmpfile, pav_regressions, train_error, files_at_start,
                    committed, config, inference >>

\* A failure of the environment ends the run: the corpus or the source
\* backend raises while the corpus is analyzed, or the save raises.
TrainingFails ==
    /\ tpc \in {"create", "save", "write", "rename"}
    /\ train_error' = IF tpc = "create" THEN "UpstreamError" ELSE "IOError"
    /\ tpc' = "failed"
    /\ UNCHANGED << files, tmpfile, tidx, pav_regressions, files_at_start,
                    committed, config, inference >>

\* ---------------------------------------------------------- specification
Init ==
    /\ sources \in SourceConfigs
    /\ min_docs \in 0 .. MaxMinDocs
    /\ corpus \in Corpora
    /\ files \in { [p \in Paths |-> NoFile],
                   [p \in Paths |->
                       ModelFile(OldModel(CHOOSE s \in SourceIds : ModelPath(s) = p))] }
    /\ initial_files = files
    /\ files_at_start = files
    /\ committed = [p \in Paths |-> {}]
    /\ tmpfile = NoFile
    /\ _models = None
    /\ apc = "idle"
    /\ text = "t1"
    /\ aidx = 1
    /\ hits_from_sources = << >>
    /\ result = NoResult
    /\ stale_hit = FALSE
    /\ tpc = "idle"
    /\ tidx = 1
    /\ pav_regressions = EmptyDict
    /\ train_error = "none"

Next ==
    \/ AnalyzeCall
    \/ AnalyzeWithSourcesStep
    \/ AnalyzeReturn
    \/ load_corpus
    \/ _create_pav_model
    \/ SaveModel
    \/ load_corpus_next
    \/ TrainingFails

Spec == Init /\ [][Next]_vars

\* ------------------------------------------------------------ properties
Cached(source_project_id) ==
    _models # None /\ source_project_id \in DOMAIN _models

TargetUris == Uris(Subjects(ProjectId))

\* The calibrated score source k of the configuration gives a uri for the
\* request's text, from the raw hits and the source's cached model.
Calibrated(k, uri) ==
    LET raw == analyze(sources[k][1], text)
        reg_models == _models[sources[k][1]]
    IN IF \E i \in 1 .. Len(raw) : raw[i].uri = uri
       THEN IF uri \in DOMAIN reg_models
            THEN reg_models[uri][ScoreOf(raw, uri)]
            ELSE ScoreOf(raw, uri)
       ELSE 0

\* The number of corpus documents labelled with a uri.
DocCount(uri) == Cardinality({d \in 1 .. Len(corpus) : uri \in corpus[d].uris})

\* C1: when a request needs the model of a source that is not cached and
\* whose artifact file does not exist, the request ends with a
\* NotInitializedException carrying the owning project's id and naming the
\* artifact path, returns no merged result, caches nothing for the source, and
\* neither trains a model nor writes a file.
C1_MissingArtifactRaises ==
    [][ (/\ apc = "sources"
         /\ ~Cached(sources[aidx][1])
         /\ files[ModelPath(sources[aidx][1])] = NoFile
         /\ inference' # inference)
        => /\ result' = [kind |-> "error",
                         error |-> "NotInitializedException",
                         message |-> "PAV model file 'data/pav-model-"
                                     \o sources[aidx][1] \o "' not found",
                         project_id |-> "ens"]
           /\ apc' = "idle"
           /\ sources[aidx][1] \notin DOMAIN _models'
           /\ UNCHANGED training ]_vars

\* C1 witness: the second configured source's artifact is missing while the
\* first one's was loaded, and the request ended with the exception.
C1_Witness ==
    /\ apc = "idle"
    /\ result.kind = "error"
    /\ result.error = "NotInitializedException"
    /\ aidx = 2
    /\ Cached(sources[1][1])
    /\ files[ModelPath(sources[2][1])] = NoFile

\* C2: the merged result holds exactly one entry per concept of the target
\* vocabulary, whose score is the sum over the sources of weight times the
\* source's calibrated score for the concept (0 when no source reports it).
C2_MergedScoreIsWeightedSum ==
    result.kind = "hits" =>
        /\ Len(result.hits) = Len(Subjects(ProjectId))
        /\ \A uri \in TargetUris :
              /\ Cardinality({i \in 1 .. Len(result.hits) : result.hits[i].uri = uri}) = 1
              /\ ScoreOf(result.hits, uri) =
                    SumSeq([k \in 1 .. Len(sources) |->
                               sources[k][2] * Calibrated(k, uri)])

\* C2 witness: unequal weights; c2 is reported by both sources, one of them
\* calibrating it away from its raw score, c1 by one source only, c5 by none.
C2_Witness ==
    /\ result.kind = "hits"
    /\ text = "t1"
    /\ sources[1][2] # sources[2][2]
    /\ \E k \in 1 .. Len(sources) :
          /\ "c2" \in DOMAIN _models[sources[k][1]]
          /\ Calibrated(k, "c2") # ScoreOf(analyze(sources[k][1], text), "c2")
    /\ ScoreOf(result.hits, "c2") > 0
    /\ ScoreOf(result.hits, "c1") > 0
    /\ ScoreOf(result.hits, "c5") = 0

\* C3: every raw hit whose concept has no calibrator in the source's model
\* appears in the calibrated hits of that source with its raw score, and
\* no hit is dropped.
C3_PassThrough ==
    \A k \in 1 .. Len(hits_from_sources) :
        LET raw == analyze(sources[k][1], text)
            out == hits_from_sources[k].hits.hits
        IN /\ Len(out) = Len(raw)
           /\ \A i \in 1 .. Len(raw) :
                 raw[i].uri \notin DOMAIN _models[sources[k][1]]
                 => \E j \in 1 .. Len(out) :
                       /\ out[j].uri = raw[i].uri
                       /\ out[j].score = raw[i].score

\* C3 witness: a source's hits were calibrated with a model that has a
\* calibrator for one reported concept, changing its score, and none for
\* another reported concept with a positive raw score.
C3_Witness ==
    \E k \in 1 .. Len(hits_from_sources) :
        LET raw == analyze(sources[k][1], text)
            reg_models == _models[sources[k][1]]
        IN /\ \E i \in 1 .. Len(raw) :
                 raw[i].uri \notin DOMAIN reg_models /\ raw[i].score > 0
           /\ \E i \in 1 .. Len(raw) :
                 /\ raw[i].uri \in DOMAIN reg_models
                 /\ reg_models[raw[i].uri][raw[i].score] # raw[i].score

\* C4: once training has committed a source's artifact, the persisted model
\* has a calibrator for exactly the concepts of the source's vocabulary that
\* at least min_docs corpus documents are labelled with.
C4_SupportThreshold ==
    \A s \in SourceIds :
        committed[ModelPath(s)] # {} =>
            /\ files[ModelPath(s)].kind = "model"
            /\ DOMAIN files[ModelPath(s)].model =
                  {uri \in Uris(Subjects(s)) : DocCount(uri) >= min_docs}

\* C4 witness: a committed model with a calibrator for a concept that exactly
\* min_docs documents are labelled with, and none for a concept of the
\* vocabulary that min_docs - 1 documents are labelled with.
C4_Witness ==
    \E s \in SourceIds :
        /\ committed[ModelPath(s)] # {}
        /\ min_docs = MaxMinDocs
        /\ \E uri \in Uris(Subjects(s)) :
              DocCount(uri) = min_docs /\ uri \in DOMAIN files[ModelPath(s)].model
        /\ \E uri \in Uris(Subjects(s)) :
              DocCount(uri) = min_docs - 1 /\ uri \notin DOMAIN files[ModelPath(s)].model

\* C5: no canonical name ever holds a partial artifact; while a source is
\* being trained and after its training failed, the source's canonical
\* artifact is what it was when the run began, and a failed run carries its
\* error.
C5_FailedTrainingLeavesArtifact ==
    /\ \A p \in Paths : files[p].kind # "partial"
    /\ tpc \in {"create", "save", "write", "rename", "failed"} =>
          files[ModelPath(sources[tidx][1])] = files_at_start[ModelPath(sources[tidx][1])]
    /\ tpc = "failed" => train_error # "none"

\* C5 witness: the save failed after the temporary file was partly written,
\* for a source that had a committed artifact before the run.
C5_Witness ==
    /\ tpc = "failed"
    /\ train_error = "IOError"
    /\ tmpfile = PartialFile
    /\ files_at_start[ModelPath(sources[tidx][1])].kind = "model"

\* C6: a mapping, once cached for a source, stays cached and is never
\* modified or replaced, whatever requests and training runs follow.
C6_CacheIsImmutable ==
    [][ \A s \in SourceIds :
           Cached(s) => /\ _models' # None
                        /\ s \in DOMAIN _models'
                        /\ _models'[s] = _models[s] ]_vars

\* C6 witness: a request was served the cached mapping of a source although
\* storage by then held another artifact for it, and the cache still holds the
\* mapping first loaded.
C6_Witness ==
    /\ stale_hit
    /\ \E s \in SourceIds :
          /\ Cached(s)
          /\ ModelFile(_models[s]) = initial_files[ModelPath(s)]
          /\ files[ModelPath(s)] # initial_files[ModelPath(s)]

\* C7: every model a reader loaded is a complete artifact that was the
\* committed one before training or was committed by training, and no load
\* ever met a partially written file.
C7_LoadsSeeCommittedArtifacts ==
    /\ \A s \in SourceIds :
          Cached(s) =>
              ModelFile(_models[s]) \in
                  (committed[ModelPath(s)] \cup {initial_files[ModelPath(s)]}) \ {NoFile}
    /\ ~(result.kind = "error" /\ result.error = "UnpicklingError")

\* C7 witness: both loads of the reader fell between the training run's
\* commit of the first source and its commit of the second: the first
\* source's cached model is the newly committed one, the second's the old one.
C7_Witness ==
    /\ Cached(sources[1][1])
    /\ Cached(sources[2][1])
    /\ initial_files[ModelPath(sources[1][1])].kind = "model"
    /\ ModelFile(_models[sources[1][1]]) # initial_files[ModelPath(sources[1][1])]
    /\ ModelFile(_models[sources[1][1]]) \in committed[ModelPath(sources[1][1])]
    /\ ModelFile(_models[sources[2][1]]) = initial_files[ModelPath(sources[2][1])]
    /\ ModelFile(_models[sources[2][1]]) \notin committed[ModelPath(sources[2][1])]

\* C8: the merged result has no entry for a concept outside the target
\* vocabulary, and the total of its scores is the weighted total of the
\* sources' calibrated scores for target concepts alone.
C8_NonTargetHitsContributeNothing ==
    result.kind = "hits" =>
        /\ \A i \in 1 .. Len(result.hits) : result.hits[i].uri \in TargetUris
        /\ SumSeq([i \in 1 .. Len(result.hits) |-> result.hits[i].score]) =
              SumSeq([k \in 1 .. Len(sources) |->
                         sources[k][2] *
                         SumSeq([i \in 1 .. Len(analyze(sources[k][1], text)) |->
                                    IF analyze(sources[k][1], text)[i].uri \in TargetUris
                                    THEN Calibrated(k, analyze(sources[k][1], text)[i].uri)
                                    ELSE 0])])

\* C8 witness: a source reported c4, which is not in the target vocabulary,
\* with a positive calibrated score, and a merged result was returned.
C8_Witness ==
    /\ result.kind = "hits"
    /\ "c4" \notin TargetUris
    /\ \E k \in 1 .. Len(sources) : Calibrated(k, "c4") > 0

\* C9 as claimed: each entry of the merged result scores strictly more than
\* the next one.
C9_StrictlyDescending ==
    result.kind = "hits" =>
        \A i \in 1 .. Len(result.hits) - 1 :
            result.hits[i].score > result.hits[i + 1].score

\* C9 amended: each entry of the merged result scores at least as much as the
\* next one.
C9_Descending ==
    result.kind = "hits" =>
        \A i \in 1 .. Len(result.hits) - 1 :
            result.hits[i].score >= result.hits[i + 1].score

\* C9 witness: a merged result with two adjacent entries of equal score and
\* two adjacent entries of different scores.
C9_Witness ==
    /\ result.kind = "hits"
    /\ \E i \in 1 .. Len(result.hits) - 1 :
          result.hits[i].score = result.hits[i + 1].score
    /\ \E i \in 1 .. Len(result.hits) - 1 :
          result.hits[i].score > result.hits[i + 1].score

\* C10: during a run of load_corpus, and after it failed at the source it
\* was training, the artifacts of the sources before that one in the
\* configuration are the models newly trained on the corpus, and the
\* artifacts of that source and of the later ones are what they were when
\* load_corpus was called.
C10_SourcesTrainedInOrder ==
    tpc \in {"create", "save", "write", "rename", "failed"} =>
        \A j \in 1 .. Len(sources) :
            LET p == ModelPath(sources[j][1])
            IN IF j < tidx
               THEN /\ corpus # << >>
                    /\ files[p] = ModelFile(CreatePavRegressions(sources[j][1],
                                                                 min_docs, corpus))
               ELSE files[p] = files_at_start[p]

\* C10 witness: training of the second source failed; the first source's
\* artifact has been replaced, the second's is the one from before the run.
C10_Witness ==
    /\ tpc = "failed"
    /\ tidx = 2
    /\ files[ModelPath(sources[1][1])] # files_at_start[ModelPath(sources[1][1])]
    /\ files_at_start[ModelPath(sources[2][1])].kind = "model"
    /\ files[ModelPath(sources[2][1])] = files_at_start[ModelPath(sources[2][1])]

====
